---- MODULE Spec2Model ----
(***************************************************************************)
(* Model of the FLIR camera capture pipeline of CameraController.py:       *)
(* CameraController (control thread, Qt event loop) and the CameraWorker   *)
(* capture threads it starts.  Worker signals reach the controller through *)
(* queued connections, i.e. through the control thread's event queue.      *)
(***************************************************************************)
EXTENDS Integers, Sequences, FiniteSets, TLC

(* ---- bounds of the model ---- *)
MaxWorkers == 2
MaxFrames == 2
MaxFps == 1
MaxSets == 2

(* ---- program constants ---- *)
NoWorker == 0
NoFrame == 0

Workers == 1..MaxWorkers

\* cam_list.GetSize() as run() reads it: no camera, or some camera
CameraCounts == {0, 1}

VARIABLES
  numCameras,   \* cam_list.GetSize() of the environment
  ctl,          \* position of the control thread
  worker,       \* CameraController.worker (NoWorker is None)
  status,       \* CameraController._status
  timerActive,  \* CameraController._display_timer is running
  currentFps,   \* CameraController._currentFps
  queue,        \* queued worker signals waiting in the control thread's event loop
  nWorkers,     \* CameraWorker objects constructed so far
  callParity,   \* number of start_camera/stop_camera calls made so far, modulo 2
  ctlOp,        \* the controller call made last, and whether its guard ignored it
  stopEarly,    \* stop() was called on the worker before it reached the read loop
  frame,        \* the local frame of capture_photo
  pc,           \* position of each capture thread in run()
  running,      \* CameraWorker.running
  camera,       \* CameraWorker.camera is not None
  system,       \* CameraWorker.system is not None
  acquiring,    \* the device is between BeginAcquisition and EndAcquisition
  began,        \* BeginAcquisition calls of the worker
  released,     \* ReleaseInstance calls of the worker
  cleanupFail,  \* the step of _cleanup that raised
  emitted,      \* signals the worker has emitted
  slot,         \* CameraWorker.last_valid_frame
  mutex,        \* holder of CameraWorker.mutex
  pubCount,     \* frames the worker has published
  fps_counter,  \* fps_counter of run()
  nFrames,      \* frames published so far, all workers
  nFps,         \* fps_updated emissions so far, all workers
  log,          \* kinds of log records written
  window,       \* frame_ready emissions of the worker since its last fps_updated
  device,       \* the limits the camera reports for its nodes
  deviceOps,    \* the threads that have called into PySpin
  nodes,        \* the values written to the camera's nodes
  packet_size,  \* CameraWorker.packet_size
  target_fps,   \* CameraWorker.target_fps
  params,       \* CameraController._gain_value, _exposure_value, _gamma_value, _gamma_enabled
  infoChanged,  \* infoChanged emissions of the setters
  forwards,     \* calls the setters have made on the worker
  ctlArg,       \* the argument of the setter call made last
  pixel_format, \* test_flir_camera: GetPixelFormat() of the image at hand
  rgb_image,    \* test_flir_camera: how rgb_image was made
  toolPc,       \* test_flir_camera: position
  nImages,      \* test_flir_camera: images taken so far
  windowElapsed, \* run(): a second has passed since fps_timer
  abandoned     \* run(): an image of GetNextImage was left without Release()

ctlVars_noQueue == <<ctl, worker, status, timerActive, currentFps, nWorkers, callParity,
                     ctlOp, stopEarly, frame>>
ctlVars == <<ctlVars_noQueue, queue>>
devVars == <<camera, system, acquiring, began, released, cleanupFail>>
frameVars == <<slot, mutex, pubCount, fps_counter, nFrames, nFps, window>>
envVars == <<numCameras, device, deviceOps>>
cfgVars == <<params, infoChanged, forwards, ctlArg>>
setupVars == <<nodes, packet_size, target_fps>>
toolVars == <<pixel_format, rgb_image, toolPc, nImages>>
loopVars == <<windowElapsed, abandoned>>
vars == <<envVars, ctlVars, pc, running, devVars, emitted, frameVars, log, cfgVars,
          setupVars, toolVars, loopVars>>

(* ---- statuses and signals ---- *)
Status(prefix, text) == [prefix |-> prefix, text |-> text]
StatusReady == Status("", "Ready")
StatusStopped == Status("", "Stopped")
ErrorStatus(error) == Status("Error: ", error)

Signal(w, sig, text, num) == [src |-> w, sig |-> sig, text |-> text, num |-> num]

\* positions of run(): before the read loop, and in it
StartupPcs == {"open", "BeginAcquisition"}
LoopPcs == {"loop", "write"}

\* QThread.isRunning()
IsRunning(w) == pc[w] \notin {"unborn", "finished"}

(* ---- flir_camera_debug_tool.py: pixel formats and OpenCV conversions ---- *)
\* PySpin.PixelFormat_Bayer<pattern>8, and the other formats a camera can deliver
Bayer8(pattern) == [name |-> "Bayer8", pattern |-> pattern]
OtherFormat(name) == [name |-> name, pattern |-> ""]
BayerPatterns == {"RG", "BG", "GB", "GR"}
PixelFormats ==
  {Bayer8(p) : p \in BayerPatterns}
    \cup {OtherFormat(n) : n \in {"Mono8", "BGR8", "RGB8", "Mono16"}}
    \cup {[name |-> "Bayer16", pattern |-> "RG"]}
NoPixelFormat == OtherFormat("none")

\* cv2.COLOR_BAYER_<pattern>2BGR, and the other ways rgb_image is made
COLOR_BAYER_2BGR(pattern) == [op |-> "COLOR_BAYER_2BGR", pattern |-> pattern]
OtherKernel(op) == [op |-> op, pattern |-> ""]
NoKernel == OtherKernel("none")

KernelForBayerRG8Swapped == COLOR_BAYER_2BGR("BG")
\* lines 81-82
KernelForBayerRG8 == COLOR_BAYER_2BGR("RG")

\* lines 73-88: how rgb_image is made from an image of the given pixel format
Convert(format) ==
  IF format = OtherFormat("Mono8") THEN OtherKernel("COLORMAP_JET")
  ELSE IF format = Bayer8("BG") THEN COLOR_BAYER_2BGR("BG")
  ELSE IF format = Bayer8("GB") THEN COLOR_BAYER_2BGR("GB")
  ELSE IF format = Bayer8("GR") THEN COLOR_BAYER_2BGR("GR")
  ELSE IF format = Bayer8("RG") THEN KernelForBayerRG8
  ELSE IF format = OtherFormat("BGR8") THEN OtherKernel("image_data")
  ELSE IF format = OtherFormat("RGB8") THEN OtherKernel("COLOR_RGB2BGR")
  ELSE OtherKernel("image_data")

(* ---- the camera and the settings of CameraWorker.__init__ ---- *)
\* the maxima a camera reports: StreamPacketSize, AcquisitionFrameRate, ExposureTime
ReferenceDevice == [packetMax |-> 9000, fpsMax |-> 60, exposureMax |-> 30000]
Devices == {ReferenceDevice,
            [packetMax |-> 1500, fpsMax |-> 25, exposureMax |-> 30000],
            [packetMax |-> 9000, fpsMax |-> 60, exposureMax |-> 10000]}

\* CameraWorker.__init__; gain in dB, gamma in tenths, exposure in microseconds
exposure_time == 20000
gain == 15
gamma == 7
gamma_enable == TRUE
InitialPacketSize == 9000
InitialTargetFps == 30

\* the state after CameraController() has been constructed, on the given camera
InitOn(cameras) ==
  /\ device \in cameras
  /\ deviceOps = {"control"}
  /\ nodes = [packet |-> 0, fps |-> 0, exposure |-> 0, gain |-> 0, gamma |-> 0,
              gamma_enable |-> FALSE, exposure_auto |-> "unset", gain_auto |-> "unset"]
  /\ packet_size = [w \in Workers |-> InitialPacketSize]
  /\ target_fps = [w \in Workers |-> InitialTargetFps]
  /\ params = [gain_value |-> 10, gamma_value |-> 10, gamma_enabled |-> FALSE,
               exposure_value |-> 20000]
  /\ infoChanged = 0
  /\ forwards = 0
  /\ ctlArg = 0
  /\ window = [w \in Workers |-> 0]
  /\ windowElapsed = [w \in Workers |-> FALSE]
  /\ abandoned = [w \in Workers |-> FALSE]
  /\ pixel_format = NoPixelFormat
  /\ rgb_image = NoKernel
  /\ toolPc = "open"
  /\ nImages = 0
  /\ numCameras \in CameraCounts
  /\ ctl = "idle"
  /\ worker = NoWorker
  /\ status = StatusReady
  /\ timerActive = FALSE
  /\ currentFps = 0
  /\ queue = <<>>
  /\ nWorkers = 0
  /\ callParity = 0
  /\ ctlOp = "none"
  /\ stopEarly = [w \in Workers |-> FALSE]
  /\ frame = NoFrame
  /\ pc = [w \in Workers |-> "unborn"]
  /\ running = [w \in Workers |-> FALSE]
  /\ camera = [w \in Workers |-> FALSE]
  /\ system = [w \in Workers |-> FALSE]
  /\ acquiring = [w \in Workers |-> FALSE]
  /\ began = [w \in Workers |-> 0]
  /\ released = [w \in Workers |-> 0]
  /\ cleanupFail = [w \in Workers |-> "none"]
  /\ emitted = [w \in Workers |-> <<>>]
  /\ slot = [w \in Workers |-> NoFrame]
  /\ mutex = [w \in Workers |-> "free"]
  /\ pubCount = [w \in Workers |-> 0]
  /\ fps_counter = [w \in Workers |-> 0]
  /\ nFrames = 0
  /\ nFps = 0
  /\ log = {}

Init == InitOn({ReferenceDevice})

(* ---- CameraController.start_camera ---- *)
StartGuardInverted == worker # NoWorker /\ ~IsRunning(worker)
\* line 393
StartGuard == worker # NoWorker /\ IsRunning(worker)

\* lines 390-407
start_camera ==
  /\ ctl = "idle"
  /\ callParity' = 1 - callParity
  /\ ctlOp' = IF StartGuard THEN "start_ignored" ELSE "start_camera"
  /\ IF StartGuard
       THEN UNCHANGED <<worker, nWorkers, timerActive, pc>>
       ELSE /\ nWorkers < MaxWorkers
            /\ nWorkers' = nWorkers + 1
            /\ worker' = nWorkers + 1
            /\ pc' = [pc EXCEPT ![nWorkers + 1] = "open"]
            /\ timerActive' = TRUE
  /\ UNCHANGED <<envVars, cfgVars, setupVars, toolVars, loopVars, ctl, status, currentFps, queue, stopEarly, frame,
                 running, devVars, emitted, frameVars, log>>

(* ---- CameraController.stop_camera and CameraWorker.stop ---- *)
WorkerKeptAfterStop == worker
\* line 414
WorkerAfterStop == NoWorker

\* lines 414-417: stop_camera after worker.stop() has returned
FinishStop ==
  /\ worker' = WorkerAfterStop
  /\ status' = StatusStopped
  /\ timerActive' = FALSE
  /\ ctl' = "idle"

\* lines 409-419 and 296-300, up to the wait(2000) when the thread is running
stop_camera ==
  /\ ctl = "idle"
  /\ callParity' = 1 - callParity
  /\ ctlOp' = IF worker = NoWorker THEN "stop_ignored" ELSE "stop_camera"
  /\ IF worker = NoWorker
       THEN UNCHANGED <<ctl, worker, status, timerActive, stopEarly, running>>
       ELSE /\ running' = [running EXCEPT ![worker] = FALSE]
            /\ stopEarly' = [stopEarly EXCEPT ![worker] = @ \/ pc[worker] \in StartupPcs]
            /\ IF IsRunning(worker)
                 THEN /\ ctl' = "stop_wait"
                      /\ UNCHANGED <<worker, status, timerActive>>
                 ELSE FinishStop
  /\ UNCHANGED <<envVars, cfgVars, setupVars, toolVars, loopVars, currentFps, queue, nWorkers, frame, pc, devVars, emitted,
                 frameVars, log>>

\* wait(2000) returns because the capture thread has finished
stop_joined ==
  /\ ctl = "stop_wait"
  /\ ~IsRunning(worker)
  /\ FinishStop
  /\ UNCHANGED <<envVars, cfgVars, setupVars, toolVars, loopVars, currentFps, queue, nWorkers, callParity, ctlOp, stopEarly,
                 frame, pc, running, devVars, emitted, frameVars, log>>

\* wait(2000) returns False after 2000 ms; stop() ignores the result
stop_timed_out ==
  /\ ctl = "stop_wait"
  /\ IsRunning(worker)
  /\ FinishStop
  /\ UNCHANGED <<envVars, cfgVars, setupVars, toolVars, loopVars, currentFps, queue, nWorkers, callParity, ctlOp, stopEarly,
                 frame, pc, running, devVars, emitted, frameVars, log>>

(* ---- CameraWorker.run, on the capture thread of worker w ---- *)
Emit(w, sig, text, num) ==
  /\ queue' = Append(queue, Signal(w, sig, text, num))
  /\ emitted' = [emitted EXCEPT ![w] = Append(@, Signal(w, sig, text, num))]

NoCameraFoundNever(n) == n < 0
\* line 58
NoCameraFound(n) == n = 0

NoCamerasTextAsOpenFailure == "InitFailed"
\* line 59: the text of the error a worker emits when no camera is found
NoCamerasText == "NoCameras"

\* lines 133-138: the packet size written to StreamPacketSize
PacketSizeApplied(size, max) == IF max >= size THEN size ELSE max

\* lines 218-221: the frame rate written to AcquisitionFrameRate
FpsApplied(target, max) == IF target > max THEN max ELSE target

\* line 240: SetValue raises on a value above the node's maximum
ExposureRejected(value, max) == value > max

\* lines 230-232 and 247-249: the entries written to ExposureAuto and to GainAuto
ExposureAutoEntry == "Off"
GainAutoEntry == "Continuous"

\* lines 117-276: _setup_camera; the stream and frame rate blocks catch their own
\* exceptions, an exception of line 240 leaves the function through lines 275-276,
\* before gain and gamma are written
setup_camera(w) ==
  LET packet == PacketSizeApplied(packet_size[w], device.packetMax)
      fps == FpsApplied(target_fps[w], device.fpsMax)
      raised == ExposureRejected(exposure_time, device.exposureMax)
  IN /\ packet_size' = [packet_size EXCEPT ![w] = packet]
     /\ target_fps' = [target_fps EXCEPT ![w] = fps]
     /\ nodes' = IF raised
                   THEN [nodes EXCEPT !.packet = packet, !.fps = fps,
                                      !.exposure_auto = ExposureAutoEntry]
                   ELSE [packet |-> packet, fps |-> fps,
                         exposure_auto |-> ExposureAutoEntry, exposure |-> exposure_time,
                         gain_auto |-> GainAutoEntry, gain |-> gain,
                         gamma_enable |-> gamma_enable,
                         gamma |-> IF gamma_enable THEN gamma ELSE nodes.gamma]
     /\ log' = IF raised THEN log \cup {"setup_warning"} ELSE log

\* lines 55-66: GetInstance, GetCameras, the size check, GetByIndex, camera.Init and
\* _setup_camera, which catches every exception itself (lines 275-276); an
\* exception of camera.Init goes to lines 111-113
run_open(w) ==
  /\ pc[w] = "open"
  /\ system' = [system EXCEPT ![w] = TRUE]
  /\ deviceOps' = deviceOps \cup {"capture"}
  /\ IF NoCameraFound(numCameras)
       THEN /\ Emit(w, "error_occurred", NoCamerasText, 0)
            /\ pc' = [pc EXCEPT ![w] = "cleanup"]
            /\ UNCHANGED <<camera, log, setupVars>>
       ELSE /\ camera' = [camera EXCEPT ![w] = TRUE]
            /\ \E ok \in BOOLEAN :
                 IF ok
                   THEN /\ setup_camera(w)
                        /\ pc' = [pc EXCEPT ![w] = "BeginAcquisition"]
                        /\ UNCHANGED <<queue, emitted>>
                   ELSE /\ Emit(w, "error_occurred", "InitFailed", 0)
                        /\ log' = log \cup {"critical"}
                        /\ pc' = [pc EXCEPT ![w] = "cleanup"]
                        /\ UNCHANGED setupVars
  /\ UNCHANGED <<numCameras, device, cfgVars, toolVars, loopVars, ctlVars_noQueue, running,
                 acquiring, began, released, cleanupFail, frameVars>>

\* lines 68-73: BeginAcquisition, the 'started' status, running = True
run_BeginAcquisition(w) ==
  /\ pc[w] = "BeginAcquisition"
  /\ began' = [began EXCEPT ![w] = @ + 1]
  /\ \E ok \in BOOLEAN :
       IF ok
         THEN /\ acquiring' = [acquiring EXCEPT ![w] = TRUE]
              /\ Emit(w, "status_changed", "CameraStarted", 0)
              /\ running' = [running EXCEPT ![w] = TRUE]
              /\ fps_counter' = [fps_counter EXCEPT ![w] = 0]
              /\ pc' = [pc EXCEPT ![w] = "loop"]
              /\ UNCHANGED log
         ELSE /\ Emit(w, "error_occurred", "BeginFailed", 0)
              /\ log' = log \cup {"critical"}
              /\ pc' = [pc EXCEPT ![w] = "cleanup"]
              /\ UNCHANGED <<acquiring, running, fps_counter>>
  /\ UNCHANGED <<envVars, cfgVars, setupVars, toolVars, loopVars, ctlVars_noQueue, camera, system, released, cleanupFail,
                 slot, mutex, pubCount, nFrames, nFps, window>>

\* line 75
LoopExits(flag) == ~flag

\* line 75: while self.running, found false
run_loop_exit(w) ==
  /\ pc[w] = "loop"
  /\ LoopExits(running[w])
  /\ pc' = [pc EXCEPT ![w] = "cleanup"]
  /\ UNCHANGED <<envVars, cfgVars, setupVars, toolVars, loopVars, ctlVars, running, devVars, emitted, frameVars, log>>

\* the windows that have lasted a second and whose rate is still to be emitted
DueWindows == {v \in Workers : windowElapsed[v]}

\* lines 76 and 99: time.time() during one iteration of w; the second of the window
\* has passed before, or it passes during this iteration, or it has not passed
Elapsed(w, passed) == windowElapsed[w] \/ passed

CanPass(passed) == passed => nFps + Cardinality(DueWindows) < MaxFps

\* lines 99-105: the FPS window, reached with current_time - fps_timer >= 1.0 or not
FpsUpdate(w, counter, sent, elapsed) ==
  IF elapsed /\ nFps < MaxFps
    THEN /\ Emit(w, "fps_updated", "", counter)
         /\ fps_counter' = [fps_counter EXCEPT ![w] = 0]
         /\ window' = [window EXCEPT ![w] = 0]
         /\ windowElapsed' = [windowElapsed EXCEPT ![w] = FALSE]
         /\ nFps' = nFps + 1
    ELSE /\ fps_counter' = [fps_counter EXCEPT ![w] = counter]
         /\ window' = [window EXCEPT ![w] = sent]
         /\ windowElapsed' = [windowElapsed EXCEPT ![w] = elapsed]
         /\ UNCHANGED <<queue, emitted, nFps>>

\* what _convert_to_qimage gives for a complete image
ConvertOutcomes == {"raise", "null", "ok"}

\* what one GetNextImage(1000) and the conversion of its image give
FrameOutcomes == {"timeout", "incomplete"} \cup ConvertOutcomes

FrameErrorEscapes == "cleanup"
\* lines 107-109
AfterFrameError == "loop"

NotLocked(who) == "free"
\* lines 86 and 305: QMutexLocker(self.mutex)
Locked(who) == who

\* lines 75-86 and 97-109: while self.running, found true, and one image up to the
\* QMutexLocker of its publication
run_GetNextImage(w) ==
  /\ pc[w] = "loop"
  /\ ~LoopExits(running[w])
  /\ \E outcome \in FrameOutcomes, passed \in BOOLEAN :
       /\ CanPass(passed)
       /\ CASE outcome = "timeout" ->
                 \* lines 107-109: nothing was taken, the FPS block is skipped
                 /\ log' = log \cup {"frame_warning"}
                 /\ pc' = [pc EXCEPT ![w] = AfterFrameError]
                 /\ windowElapsed' = [windowElapsed EXCEPT ![w] = Elapsed(w, passed)]
                 /\ UNCHANGED <<queue, emitted, fps_counter, nFps, window, mutex,
                                abandoned>>
            [] outcome = "raise" ->
                 \* lines 83 and 107-109: Release() of line 97 and the FPS block are
                 \* skipped
                 /\ log' = log \cup {"frame_warning"}
                 /\ pc' = [pc EXCEPT ![w] = AfterFrameError]
                 /\ windowElapsed' = [windowElapsed EXCEPT ![w] = Elapsed(w, passed)]
                 /\ abandoned' = [abandoned EXCEPT ![w] = TRUE]
                 /\ UNCHANGED <<queue, emitted, fps_counter, nFps, window, mutex>>
            [] outcome = "incomplete" ->
                 \* lines 79-81: Release() and continue, the FPS block is skipped
                 /\ pc' = [pc EXCEPT ![w] = "loop"]
                 /\ windowElapsed' = [windowElapsed EXCEPT ![w] = Elapsed(w, passed)]
                 /\ UNCHANGED <<queue, emitted, fps_counter, nFps, window, mutex, log,
                                abandoned>>
            [] outcome = "null" ->
                 /\ FpsUpdate(w, fps_counter[w], window[w], Elapsed(w, passed))
                 /\ pc' = [pc EXCEPT ![w] = "loop"]
                 /\ UNCHANGED <<mutex, log, abandoned>>
            [] outcome = "ok" ->
                 /\ nFrames < MaxFrames
                 /\ mutex[w] = "free"
                 /\ mutex' = [mutex EXCEPT ![w] = Locked("capture")]
                 /\ pc' = [pc EXCEPT ![w] = "write"]
                 /\ windowElapsed' = [windowElapsed EXCEPT ![w] = Elapsed(w, passed)]
                 /\ UNCHANGED <<queue, emitted, fps_counter, nFps, window, log,
                                abandoned>>
  /\ UNCHANGED <<envVars, cfgVars, setupVars, toolVars, ctlVars_noQueue, running,
                 devVars, slot, pubCount, nFrames>>

StaleFrame(n) == 1
\* line 87: the frame written to last_valid_frame, after n frames were published
PublishedFrame(n) == n + 1

FramesNotCounted(counter) == counter
\* line 95
FramesCounted(counter) == counter + 1

\* lines 87-105: the write of last_valid_frame, the unlock, the emissions, the FPS window
run_publish(w) ==
  /\ pc[w] = "write"
  /\ slot' = [slot EXCEPT ![w] = PublishedFrame(pubCount[w])]
  /\ pubCount' = [pubCount EXCEPT ![w] = @ + 1]
  /\ nFrames' = nFrames + 1
  /\ mutex' = [mutex EXCEPT ![w] = "free"]
  /\ \E passed \in BOOLEAN :
       /\ CanPass(passed)
       /\ FpsUpdate(w, FramesCounted(fps_counter[w]), window[w] + 1, Elapsed(w, passed))
  /\ pc' = [pc EXCEPT ![w] = "loop"]
  /\ UNCHANGED <<envVars, cfgVars, setupVars, toolVars, ctlVars_noQueue, running, devVars,
                 log, abandoned>>

(* ---- CameraWorker._cleanup ---- *)
\* the steps of _cleanup that can raise in the worker's state: EndAcquisition raises
\* on a camera that is not acquiring, EndAcquisition and DeInit can raise on one that
\* is; ReleaseInstance is taken to succeed
CleanupFailures(w) ==
  IF camera[w]
    THEN IF acquiring[w] THEN {"none", "EndAcquisition", "DeInit"}
                         ELSE {"EndAcquisition"}
    ELSE {"none"}

\* lines 114-115 and 278-294, then the thread ends
run_cleanup(w) ==
  /\ pc[w] = "cleanup"
  /\ running' = [running EXCEPT ![w] = FALSE]
  /\ \E fail \in CleanupFailures(w) :
       LET cameraDone == camera[w] /\ fail \notin {"EndAcquisition", "DeInit"}
           reachesSystem == (~camera[w] \/ cameraDone) /\ system[w]
       IN /\ acquiring' = [acquiring EXCEPT ![w] =
                             IF camera[w] /\ fail # "EndAcquisition" THEN FALSE ELSE @]
          /\ camera' = [camera EXCEPT ![w] = IF cameraDone THEN FALSE ELSE @]
          /\ released' = [released EXCEPT ![w] = IF reachesSystem THEN @ + 1 ELSE @]
          /\ system' = [system EXCEPT ![w] = IF reachesSystem THEN FALSE ELSE @]
          /\ cleanupFail' = [cleanupFail EXCEPT ![w] = fail]
          /\ log' = IF fail # "none" THEN log \cup {"cleanup_error"} ELSE log
  /\ pc' = [pc EXCEPT ![w] = "finished"]
  /\ UNCHANGED <<envVars, cfgVars, setupVars, toolVars, loopVars, ctlVars, began, emitted, frameVars>>

(* ---- slots of CameraController, run by the control thread's event loop ---- *)
Dequeue ==
  /\ ctl = "idle"
  /\ queue # <<>>
  /\ queue' = Tail(queue)

\* lines 435-438
on_status_changed ==
  /\ Dequeue
  /\ Head(queue).sig = "status_changed"
  /\ status' = Status("", Head(queue).text)
  /\ UNCHANGED <<envVars, cfgVars, setupVars, toolVars, loopVars, ctl, worker, timerActive, currentFps, nWorkers, callParity,
                 ctlOp, stopEarly, frame, pc, running, devVars, emitted, frameVars, log>>

\* lines 440-445
on_error ==
  /\ Dequeue
  /\ Head(queue).sig = "error_occurred"
  /\ log' = log \cup {"controller_error"}
  /\ status' = ErrorStatus(Head(queue).text)
  /\ timerActive' = FALSE
  /\ UNCHANGED <<envVars, cfgVars, setupVars, toolVars, loopVars, ctl, worker, currentFps, nWorkers, callParity, ctlOp,
                 stopEarly, frame, pc, running, devVars, emitted, frameVars>>

\* lines 452-455
on_fps_updated ==
  /\ Dequeue
  /\ Head(queue).sig = "fps_updated"
  /\ currentFps' = Head(queue).num
  /\ UNCHANGED <<envVars, cfgVars, setupVars, toolVars, loopVars, ctl, worker, status, timerActive, nWorkers, callParity,
                 ctlOp, stopEarly, frame, pc, running, devVars, emitted, frameVars, log>>

(* ---- capture_photo, on the control thread ---- *)
\* lines 465-466 and 305: the running check and QMutexLocker(self.mutex)
capture_photo_lock ==
  /\ ctl = "idle"
  /\ worker # NoWorker
  /\ IsRunning(worker)
  /\ mutex[worker] = "free"
  /\ mutex' = [mutex EXCEPT ![worker] = Locked("control")]
  /\ ctl' = "photo_locked"
  /\ UNCHANGED <<envVars, cfgVars, setupVars, toolVars, loopVars, worker, status, timerActive, currentFps, queue, nWorkers,
                 callParity, ctlOp, stopEarly, frame, pc, running, devVars, emitted,
                 slot, pubCount, fps_counter, nFrames, nFps, window, log>>

\* line 306 and the unlock: the copy of last_valid_frame, or a null QImage
capture_photo_read ==
  /\ ctl = "photo_locked"
  /\ frame' = IF slot[worker] # NoFrame THEN slot[worker] ELSE NoFrame
  /\ mutex' = [mutex EXCEPT ![worker] = "free"]
  /\ ctl' = "photo_copied"
  /\ UNCHANGED <<envVars, cfgVars, setupVars, toolVars, loopVars, worker, status, timerActive, currentFps, queue, nWorkers,
                 callParity, ctlOp, stopEarly, pc, running, devVars, emitted,
                 slot, pubCount, fps_counter, nFrames, nFps, window, log>>

\* lines 308-318: False for a null frame, else what frame.save gives
capture_photo_return ==
  /\ ctl = "photo_copied"
  /\ \E saved \in BOOLEAN :
       ctl' = IF frame # NoFrame /\ saved THEN "photo_true" ELSE "photo_false"
  /\ UNCHANGED <<envVars, cfgVars, setupVars, toolVars, loopVars, worker, status, timerActive,
                 currentFps, queue, nWorkers, callParity, ctlOp, stopEarly, frame, pc,
                 running, devVars, emitted, frameVars, log>>

\* the slot capture_photo has returned to its caller, the local frame is gone
capture_photo_returned ==
  /\ ctl \in {"photo_true", "photo_false"}
  /\ frame' = NoFrame
  /\ ctl' = "idle"
  /\ UNCHANGED <<envVars, cfgVars, setupVars, toolVars, loopVars, worker, status, timerActive,
                 currentFps, queue, nWorkers, callParity, ctlOp, stopEarly, pc,
                 running, devVars, emitted, frameVars, log>>

(* ---- the setters of CameraController, on the control thread ---- *)
\* the values the user interface asks for: gain in dB, exposure in microseconds,
\* gamma in tenths
GainRequests == {15}
ExposureRequests == {20000, 50000}
GammaRequests == {7}

Setters == {"set_gain", "set_exposure", "set_gamma", "set_gamma_enable"}

\* lines 472-479, 484-491, 496-503, 508-515: what the four setters share; the call
\* made on the worker is counted, CameraWorker defines none of the four methods
Setter(name, value) ==
  /\ ctl = "idle"
  /\ infoChanged < MaxSets
  /\ callParity' = 1 - callParity
  /\ ctlOp' = name
  /\ ctlArg' = value
  /\ infoChanged' = infoChanged + 1
  /\ forwards' = IF worker # NoWorker /\ IsRunning(worker) THEN forwards + 1 ELSE forwards
  /\ UNCHANGED <<envVars, setupVars, toolVars, loopVars, ctl, worker, status, timerActive,
                 currentFps, queue, nWorkers, stopEarly, frame, pc, running, devVars,
                 emitted, frameVars, log>>

\* lines 469-479
set_gain ==
  \E gain_value \in GainRequests :
    /\ params' = [params EXCEPT !.gain_value = gain_value]
    /\ Setter("set_gain", gain_value)

\* lines 481-491
set_exposure ==
  \E exposure_value \in ExposureRequests :
    /\ params' = [params EXCEPT !.exposure_value = exposure_value]
    /\ Setter("set_exposure", exposure_value)

\* lines 493-503
set_gamma ==
  \E gamma_value \in GammaRequests :
    /\ params' = [params EXCEPT !.gamma_value = gamma_value]
    /\ Setter("set_gamma", gamma_value)

\* lines 505-515
set_gamma_enable ==
  \E enabled \in BOOLEAN :
    /\ params' = [params EXCEPT !.gamma_enabled = enabled]
    /\ Setter("set_gamma_enable", enabled)

Next ==
  \/ start_camera
  \/ stop_camera
  \/ stop_joined
  \/ stop_timed_out
  \/ on_status_changed
  \/ on_error
  \/ on_fps_updated
  \/ capture_photo_lock
  \/ capture_photo_read
  \/ capture_photo_return
  \/ capture_photo_returned
  \/ \E w \in Workers : run_open(w)
  \/ \E w \in Workers : run_BeginAcquisition(w)
  \/ \E w \in Workers : run_loop_exit(w)
  \/ \E w \in Workers : run_GetNextImage(w)
  \/ \E w \in Workers : run_publish(w)
  \/ \E w \in Workers : run_cleanup(w)

Spec == Init /\ [][Next]_vars

(* ---- flir_camera_debug_tool.py: test_flir_camera ---- *)
toolRest == <<envVars, ctlVars, pc, running, devVars, emitted, frameVars, log, cfgVars,
              setupVars, loopVars>>

\* lines 16-58: the camera is opened and configured, or none is found
tool_open ==
  /\ toolPc = "open"
  /\ toolPc' = IF numCameras = 0 THEN "done" ELSE "GetNextImage"
  /\ UNCHANGED <<toolRest, pixel_format, rgb_image, nImages>>

\* lines 63-72 and 103: the next image; an incomplete one is released at once
tool_GetNextImage ==
  /\ toolPc = "GetNextImage"
  /\ nImages < MaxFrames
  /\ \/ /\ nImages' = nImages + 1
        /\ UNCHANGED <<toolPc, pixel_format>>
     \/ \E format \in PixelFormats :
          /\ pixel_format' = format
          /\ toolPc' = "convert"
          /\ UNCHANGED nImages
  /\ UNCHANGED <<toolRest, rgb_image>>

\* lines 73-88
tool_convert ==
  /\ toolPc = "convert"
  /\ rgb_image' = Convert(pixel_format)
  /\ toolPc' = "imshow"
  /\ UNCHANGED <<toolRest, pixel_format, nImages>>

\* lines 90-103: the image is shown; the key 'q' ends the loop
tool_imshow ==
  /\ toolPc = "imshow"
  /\ nImages' = nImages + 1
  /\ \E quit \in BOOLEAN : toolPc' = IF quit THEN "finally" ELSE "GetNextImage"
  /\ UNCHANGED <<toolRest, pixel_format, rgb_image>>

\* lines 105-106: KeyboardInterrupt in the loop
tool_interrupt ==
  /\ toolPc \in {"GetNextImage", "convert", "imshow"}
  /\ toolPc' = "finally"
  /\ UNCHANGED <<toolRest, pixel_format, rgb_image, nImages>>

\* lines 107-113
tool_finally ==
  /\ toolPc = "finally"
  /\ toolPc' = "done"
  /\ UNCHANGED <<toolRest, pixel_format, rgb_image, nImages>>

NextTool ==
  \/ tool_open
  \/ tool_GetNextImage
  \/ tool_convert
  \/ tool_imshow
  \/ tool_interrupt
  \/ tool_finally

SpecTool == Init /\ [][NextTool]_vars

(* ---- sessions and settings on any of the cameras: the setters, the lifecycle ---- *)
(* ---- of the sessions whose threads stop() joins in time, the frames left out ---- *)
InitConfig == InitOn(Devices)

NextConfig ==
  \/ set_gain
  \/ set_exposure
  \/ set_gamma
  \/ set_gamma_enable
  \/ start_camera
  \/ stop_camera
  \/ stop_joined
  \/ on_status_changed
  \/ on_error
  \/ \E w \in Workers : run_open(w)
  \/ \E w \in Workers : run_BeginAcquisition(w)
  \/ \E w \in Workers : run_loop_exit(w)
  \/ \E w \in Workers : run_cleanup(w)

SpecConfig == InitConfig /\ [][NextConfig]_vars

(* ---- properties ---- *)
\* a step that is a call of start_camera, of stop_camera
StartCameraCalled == callParity' # callParity /\ ctlOp' \in {"start_camera", "start_ignored"}
StopCameraCalled == callParity' # callParity /\ ctlOp' \in {"stop_camera", "stop_ignored"}

\* the error_occurred signals among the signals a worker has emitted
Errors(sigs) == SelectSeq(sigs, LAMBDA e : e.sig = "error_occurred")

\* C1: a start_camera call made while the current worker's thread is running creates no
\* CameraWorker, starts no capture thread and leaves the controller's worker reference,
\* status and timer unchanged.
C1_StartWhileActiveIsNoOp ==
  [][(StartCameraCalled /\ worker # NoWorker /\ IsRunning(worker)) =>
        /\ nWorkers' = nWorkers
        /\ pc' = pc
        /\ worker' = worker
        /\ status' = status
        /\ timerActive' = timerActive]_vars

C1_Witness == ctlOp = "start_ignored" /\ worker # NoWorker /\ IsRunning(worker)

\* C2: a worker whose stop() was called before it entered the read loop never is in the
\* read loop.
C2_StopDuringStartupAborts ==
  \A w \in Workers : stopEarly[w] => pc[w] \notin LoopPcs

\* C3: every worker that stop_camera has let go of has exited, or the overrun of the join
\* was logged.
C3_StopReturnsAfterThreadExit ==
  \A w \in 1..nWorkers :
    w # worker => (pc[w] = "finished" \/ "join_overrun" \in log)

\* C4: once the capture thread has terminated, the worker holds neither the camera handle
\* nor the system instance.
C4_CleanupReleasesEverything ==
  \A w \in Workers : pc[w] = "finished" => (~camera[w] /\ ~system[w])

\* C5: when a camera step of _cleanup has raised, ReleaseInstance was called all the same.
C5_CleanupRunsEveryStep ==
  \A w \in Workers :
    (pc[w] = "finished" /\ cleanupFail[w] \in {"EndAcquisition", "DeInit"})
      => released[w] = 1

\* C6: with no camera present a worker never calls BeginAcquisition, never holds a camera,
\* never is in the read loop and never publishes a frame; when it leaves run() it has
\* emitted the 'no camera found' error and nothing else; the 'started' status is never
\* published; and the system instance is released at most once, also after stop_camera.
C6_NoCameraSessionFaults ==
  numCameras = 0 =>
    /\ status # Status("", "CameraStarted")
    /\ \A w \in Workers :
         /\ began[w] = 0
         /\ ~camera[w] /\ ~acquiring[w]
         /\ pc[w] \notin LoopPcs \cup {"BeginAcquisition"}
         /\ pubCount[w] = 0 /\ slot[w] = NoFrame
         /\ released[w] <= 1
         /\ pc[w] \in {"cleanup", "finished"} =>
              emitted[w] = <<Signal(w, "error_occurred", "NoCameras", 0)>>

C6_Witness ==
  /\ numCameras = 0
  /\ pc[1] = "finished" /\ released[1] = 1
  /\ "controller_error" \in log
  /\ ctlOp = "stop_camera" /\ ctl = "idle" /\ worker = NoWorker
  /\ status = StatusStopped

\* C7: a stop_camera call that follows a stop_camera call which has returned changes
\* nothing: not the worker reference, the status, the timer, the event queue, any
\* worker's running flag, thread or device state; and no worker releases the system
\* instance more than once.
C7_StopTwiceIsStopOnce ==
  /\ [](\A w \in Workers : released[w] <= 1)
  /\ [][(StopCameraCalled /\ ctlOp \in {"stop_camera", "stop_ignored"} /\ ctl = "idle") =>
          /\ ctl' = "idle"
          /\ UNCHANGED <<worker, status, timerActive, queue, running, pc, devVars>>]_vars

C7_Witness ==
  /\ ctlOp = "stop_ignored" /\ nWorkers > 0
  /\ status = StatusStopped
  /\ \E w \in Workers : released[w] = 1

\* C8: while stop_camera has torn down a session and no start_camera has followed, the
\* controller's status is the 'stopped' status.
C8_StoppedStatusStays ==
  (worker = NoWorker /\ nWorkers > 0) => status = StatusStopped

\* C9: a step taken while a worker is in the read loop with its running flag set leaves
\* the worker in the read loop, and emits no error_occurred of that worker.
C9_FrameErrorsStayInLoop ==
  [][\A w \in Workers :
       (pc[w] \in LoopPcs /\ running[w]) =>
          /\ pc'[w] \in LoopPcs
          /\ Errors(emitted'[w]) = Errors(emitted[w])]_vars

C9_Witness ==
  /\ nWorkers = 1 /\ pc[1] = "loop" /\ running[1]
  /\ "frame_warning" \in log
  /\ Errors(emitted[1]) = <<>>

\* C10: the capture thread's write of last_valid_frame and the control thread's read of
\* it never overlap, each happens while its thread holds the mutex, and a read yields
\* the empty value or a frame the worker has published.
C10_SlotNeverTorn ==
  /\ [](ctl = "photo_locked" => pc[worker] # "write")
  /\ [](ctl = "photo_copied" => frame \in {NoFrame} \cup 1..pubCount[worker])
  /\ [][/\ \A w \in Workers : slot'[w] # slot[w] => mutex[w] = "capture"
        /\ (ctl = "photo_locked" /\ ctl' # ctl) => mutex[worker] = "control"]_vars

C10_Witness ==
  /\ ctl = "photo_copied" /\ frame # NoFrame
  /\ pc[worker] = "write"

\* C11: the frame capture_photo reads is the frame the worker published last, and the
\* null image when the worker has published none; capture_photo returns True only for
\* a frame that is not null.
C11_LatestFrameWins ==
  /\ [][(ctl = "photo_locked" /\ ctl' = "photo_copied") =>
          frame' = IF pubCount[worker] = 0 THEN NoFrame ELSE pubCount[worker]]_vars
  /\ [](ctl = "photo_true" => frame # NoFrame)
  /\ []((ctl \in {"photo_true", "photo_false"} /\ frame = NoFrame) => ctl = "photo_false")

C11_Witness ==
  /\ ctl = "photo_true" /\ frame = PublishedFrame(1)
  /\ pubCount[worker] = frame

\* a step that is a call of one of the setters
SetterCalled == callParity' # callParity /\ ctlOp' \in Setters

\* C12: a setter call that repeats the call made just before it, same setter and same
\* value, fires no change notification and makes no call on the worker.
C12_SettersIdempotent ==
  [][(SetterCalled /\ ctlOp' = ctlOp /\ ctlArg' = ctlArg) =>
        (infoChanged' = infoChanged /\ forwards' = forwards)]_vars

\* the worker has run _setup_camera and every write of it went through
SetupApplied(w) ==
  /\ pc[w] \in {"BeginAcquisition"} \cup LoopPcs
  /\ ~ExposureRejected(exposure_time, device.exposureMax)

\* C13: when start_camera was the last call on the controller and the worker it started
\* has configured the camera, the exposure, gain and gamma written to the camera are
\* the controller's values.
C13_ConfigMirroredAtStart ==
  (ctlOp = "start_camera" /\ worker # NoWorker /\ SetupApplied(worker)) =>
    /\ nodes.exposure = params.exposure_value
    /\ nodes.gain = params.gain_value
    /\ nodes.gamma_enable = params.gamma_enabled
    /\ nodes.gamma = params.gamma_value

\* C14: no thread but the capture threads has called into PySpin.
C14_ControllerNeverTouchesDevice == "control" \notin deviceOps

\* stop() or _cleanup has written running = False on the worker
FlagCleared(w) ==
  \/ w \in 1..nWorkers /\ (w # worker \/ ctl = "stop_wait")
  \/ pc[w] = "finished"

\* C15: a worker is in the read loop only after its BeginAcquisition succeeded; a worker
\* whose running flag stop() or _cleanup has cleared does not stream; a worker that has
\* emitted an error is in _cleanup or has finished.
C15_LifecycleTransitions ==
  \A w \in Workers :
    /\ pc[w] \in LoopPcs => (began[w] = 1 /\ acquiring[w])
    /\ FlagCleared(w) => ~(pc[w] \in LoopPcs /\ running[w])
    /\ Errors(emitted[w]) # <<>> => pc[w] \in {"cleanup", "finished"}

\* camera.Init has raised on the worker; _setup_camera has failed on the worker
InitFailed(w) == \E i \in DOMAIN emitted[w] : emitted[w][i].text = "InitFailed"
SetupFailed(w) ==
  /\ pc[w] \notin {"unborn", "open"}
  /\ "setup_warning" \in log
  /\ Errors(emitted[w]) = <<>> \/ pc[w] \in {"BeginAcquisition"} \cup LoopPcs

\* C16: a worker whose camera.Init or _setup_camera has failed never is in the read
\* loop, and has emitted exactly one error when its thread ends.
C16_SetupFailureIsFatal ==
  \A w \in Workers :
    (InitFailed(w) \/ SetupFailed(w)) =>
      /\ pc[w] \notin LoopPcs
      /\ pc[w] = "finished" => Len(Errors(emitted[w])) = 1

\* C17: the controller's error status carries the 'no camera found' text exactly when
\* no camera is present: a failure to open a camera that is present never gives it.
C17_NoCameraAndOpenFailureDiffer ==
  status.prefix = "Error: " => (status.text = NoCamerasText <=> numCameras = 0)

C17_Witness ==
  /\ numCameras = 1 /\ status = ErrorStatus("InitFailed")
  /\ pc[1] = "finished"

\* C18: while a session streams, the exposure the controller records after set_exposure
\* is not above the camera's maximum, no node holds a value above its maximum, and the
\* worker records the packet size and frame rate that were written.
C18_Clamping ==
  \A w \in Workers :
    pc[w] \in LoopPcs =>
      /\ ctlOp = "set_exposure" => params.exposure_value <= device.exposureMax
      /\ nodes.exposure <= device.exposureMax
      /\ nodes.packet <= device.packetMax /\ packet_size[w] = nodes.packet
      /\ nodes.fps <= device.fpsMax /\ target_fps[w] = nodes.fps

\* C19: the kernel test_flir_camera applies to an image of a Bayer 8-bit format is the
\* Bayer kernel of the format's own pattern, the kernel applied to an image of any other
\* format is no Bayer kernel; so no two Bayer formats get the same kernel.
C19_BayerKernelsMatch ==
  toolPc = "imshow" =>
    IF pixel_format \in {Bayer8(p) : p \in BayerPatterns}
      THEN rgb_image = COLOR_BAYER_2BGR(pixel_format.pattern)
      ELSE rgb_image.op # "COLOR_BAYER_2BGR"

C19_Witness ==
  /\ toolPc = "imshow" /\ nImages = 1
  /\ pixel_format = Bayer8("RG") /\ rgb_image = COLOR_BAYER_2BGR("RG")

C21_FpsEmittedEachSecond ==
  \A w \in Workers : (pc[w] = "loop" /\ ~abandoned[w]) => ~windowElapsed[w]

\* C22: once _setup_camera has written the manual ExposureTime, ExposureAuto is Off, and
\* once it has written the manual Gain, GainAuto is Off.
C22_ManualAfterAutoOff ==
  /\ nodes.exposure # 0 => nodes.exposure_auto = "Off"
  /\ nodes.gain # 0 => nodes.gain_auto = "Off"

\* C23: no worker has left an image of GetNextImage without Release().
C23_EveryImageReleased ==
  \A w \in Workers : ~abandoned[w]

\* the capture threads between camera.Init and the end of _cleanup
HoldingDevice == {w \in Workers : camera[w] /\ IsRunning(w)}

\* C24: at most one capture thread is between camera.Init and the end of _cleanup.
C24_OneThreadHoldsDevice ==
  Cardinality(HoldingDevice) <= 1

\* a notification of a worker that is not the current one is delivered
LateDelivery ==
  /\ queue # <<>> /\ queue' = Tail(queue)
  /\ worker # NoWorker /\ Head(queue).src # worker

\* C25: the delivery of a notification of a replaced worker, while another worker is the
\* current session, changes neither the status nor the display timer nor the FPS value.
C25_LateNotificationsIgnored ==
  [][LateDelivery => UNCHANGED <<status, timerActive, currentFps>>]_vars
====
